---- MODULE Spec2Model ----
(***************************************************************************)
(* Model of the 74HC4046 PLL scripts simulation/74hc4046/loop.py and       *)
(* simulation/74hc4046/loop_filter.py.                                     *)
(*                                                                         *)
(* One behaviour is one run of one script: the argument parser, the load   *)
(* of parameters.json, the dispatch through locals() and the mode function *)
(* (analyze, design, get_kvco, step).  Python lists are heap cells, so the *)
(* aliasing between the parameters dictionary and the HC4046 object is     *)
(* part of the state.  scipy.optimize.least_squares is the environment: it *)
(* calls the residual function at the points a trust-region iteration      *)
(* evaluates (the start point, finite-difference points, trial points).    *)
(*                                                                         *)
(* Numbers are exact: a rational is <<n, d>> in lowest terms, a real is    *)
(* [kind, coef, arg] and stands for coef, coef*sqrt(arg) or coef*ln(arg).  *)
(* The binary64 rounding of the Python floats is not modelled.             *)
(***************************************************************************)
EXTENDS Integers, Sequences, FiniteSets, TLC

(***************************************************************************)
(* Bounds of the model.                                                    *)
(***************************************************************************)
\* resistor values of parameters.json and of the optimiser's grid: 1..MaxR
MaxR == 2
\* least_squares' max_nfev (100 * n in scipy), scaled down
MaxNfev == 2
\* rows of vco.csv
MaxRows == 3
\* measured frequencies of vco.csv, in kHz: 1..MaxFreqKHz
MaxFreqKHz == 3

(***************************************************************************)
(* Exact arithmetic.                                                       *)
(***************************************************************************)
Abs(n) == IF n < 0 THEN -n ELSE n

RECURSIVE Gcd(_, _)
Gcd(a, b) == IF b = 0 THEN a ELSE Gcd(b, a % b)

\* the rational n/d in lowest terms with a positive denominator
Rat(n, d) ==
    LET g == Gcd(Abs(n), Abs(d))
        s == IF d < 0 THEN -1 ELSE 1
    IN  <<(s * n) \div g, (s * d) \div g>>

Zero == <<0, 1>>
One == <<1, 1>>
Two == <<2, 1>>

RAdd(a, b) == Rat(a[1] * b[2] + b[1] * a[2], a[2] * b[2])
RSub(a, b) == Rat(a[1] * b[2] - b[1] * a[2], a[2] * b[2])
RMul(a, b) == Rat(a[1] * b[1], a[2] * b[2])
RDiv(a, b) == Rat(a[1] * b[2], a[2] * b[1])
RLess(a, b) == a[1] * b[2] < b[1] * a[2]
RAbs(a) == <<Abs(a[1]), a[2]>>

\* reals: coef ("rat"), coef * sqrt(arg) ("sqrt"), coef * ln(arg) ("log")
Real(q) == [kind |-> "rat", coef |-> q, arg |-> One]
Sqrt(q) == [kind |-> "sqrt", coef |-> One, arg |-> q]
Log(q) == [kind |-> "log", coef |-> One, arg |-> q]
\* a real times a rational
Scale(x, q) == [x EXCEPT !.coef = RMul(@, q)]
\* the product of two reals: rationals, or two roots of the same radicand
Times(x, y) ==
    IF x.kind = "rat" THEN Scale(y, x.coef)
    ELSE IF y.kind = "rat" THEN Scale(x, y.coef)
    ELSE Real(RMul(RMul(x.coef, y.coef), x.arg))

\* np.pi: a binary64 constant, here a small rational
pi == <<22, 7>>
TwoPi == RMul(Two, pi)

(***************************************************************************)
(* The state of one run.                                                   *)
(***************************************************************************)
VARIABLES
    script,           \* "loop" (loop.py) or "loop_filter" (loop_filter.py)
    mode,             \* the mode argument on the command line
    pc,               \* where the run is
    exit_code,        \* -1 while running; 0, 1 (traceback), 2 (argparse)
    parameters_json,  \* parameters.json as read: <<>> before, <<file>> after
    json_parameters,  \* the dictionary json.load returned: <<>> or <<dict>>
    vco_csv,          \* vco.csv as read by np.loadtxt: <<>> or <<data>>
    heap,             \* the list objects: address -> list of numbers
    pll,              \* the HC4046 object of the running mode: <<>> or <<obj>>
    lsq,              \* least_squares' working state
    result,           \* what least_squares returned: <<>> or <<[x, success]>>
    figure,           \* the transfer function plt.show displays: <<>> or <<tf>>
    calls,            \* the mode functions called, with their arguments
    out               \* the lines printed, in order

vars == <<script, mode, pc, exit_code, parameters_json, json_parameters,
          vco_csv, heap, pll, lsq, result, figure, calls, out>>

(***************************************************************************)
(* The module level of the two scripts.                                    *)
(***************************************************************************)
Scripts == {"loop", "loop_filter"}

\* MODES: the choices of the mode argument
MODES(s) ==
    IF s = "loop" THEN {"analyze", "design", "get_kvco", "step"}
    ELSE {"analyze", "design"}

\* the names locals() holds at the dispatch (module level: the globals)
Locals(s) ==
    IF s = "loop"
    THEN {"Path", "json", "argparse", "np", "signal", "optimize", "plt",
          "cprint", "MODES", "print_value", "get_natural_frequency",
          "get_damping_factor", "HC4046", "design", "analyze", "get_kvco",
          "step", "parser", "args", "file", "json_parameters"}
    ELSE {"pathlib", "json", "argparse", "MODES", "design", "analyze",
          "parser", "args"}

\* the mode functions a script defines
ModeFunctions(s) ==
    IF s = "loop" THEN {"design", "analyze", "get_kvco", "step"}
    ELSE {"design", "analyze"}

\* what a user may type as the mode
Argv == {"analyze", "design", "get_kvco", "step", "print_value", "bogus"}

(***************************************************************************)
(* parameters.json.  The lists under Loop Filter are objects of their own: *)
(* the loaded dictionary holds their addresses.                            *)
(***************************************************************************)
RGrid == {<<n, 1>> : n \in 1..MaxR}

ParamFiles ==
    [k_vco : {Two},
     phase_detector : {"I", "II", "III", "IV"},
     supply_voltage : {<<3, 1>>, <<5, 1>>},
     input_frequency : {<<1000, 1>>},
     output_frequency : {<<2000, 1>>, <<4000, 1>>},
     R : RGrid \X RGrid,
     C : {<<One>>, <<Two>>},
     design_natural_frequency : {One},
     design_damping_factor : {<<1, 2>>}]

Addr == {"json_R", "json_C", "init_r", "init_c", "x_view"}

EmptyHeap == [a \in Addr |-> <<>>]

\* json.load: the dictionary, and the heap holding its two lists
LoadDict(file) == [file EXCEPT !.R = "json_R", !.C = "json_C"]
LoadHeap(h, file) == [h EXCEPT !["json_R"] = file.R, !["json_C"] = file.C]

\* the dictionary with its lists read out of the heap
DictValue(d, h) == [d EXCEPT !.R = h[d.R], !.C = h[d.C]]

(***************************************************************************)
(* class HC4046                                                            *)
(***************************************************************************)
\* __init__ before set_parameters: the defaults, with two fresh lists
HC4046_defaults ==
    [k_vco |-> One, k_pd |-> One, k_n |-> One, r |-> "init_r", c |-> "init_c"]
HC4046_heap(h) == [h EXCEPT !["init_r"] = <<One, One>>, !["init_c"] = <<One>>]

\* set_k_pd with the divisor 2 of the "II" | "III" case left out
set_k_pd_same_gain(old, parameters) ==
    CASE parameters.phase_detector \in {"I", "II", "III"} ->
            RDiv(parameters.supply_voltage, pi)
      [] OTHER -> old

\* the match statement of set_parameters: no case, no assignment
set_k_pd(old, parameters) ==
    CASE parameters.phase_detector = "I" ->
            RDiv(parameters.supply_voltage, pi)
      [] parameters.phase_detector \in {"II", "III"} ->
            RDiv(parameters.supply_voltage, TwoPi)
      [] OTHER -> old

\* set_parameters: r and c become the dictionary's own list objects
set_parameters(self, parameters) ==
    [k_vco |-> parameters.k_vco,
     k_pd |-> set_k_pd(self.k_pd, parameters),
     k_n |-> RDiv(parameters.input_frequency, parameters.output_frequency),
     r |-> parameters.R,
     c |-> parameters.C]

\* HC4046(parameters)
HC4046(parameters) == set_parameters(HC4046_defaults, parameters)

tau(self, h) ==
    <<RMul(h[self.r][1], h[self.c][1]), RMul(h[self.r][2], h[self.c][1])>>

LoopGain(self) == RMul(RMul(self.k_vco, self.k_pd), self.k_n)

natural_frequency(self, h) ==
    Sqrt(RDiv(LoopGain(self), RAdd(tau(self, h)[1], tau(self, h)[2])))

\* damping_factor with the time constant of R1 in place of that of R2
damping_factor_tau1(self, h) ==
    Times(Scale(natural_frequency(self, h), <<1, 2>>),
          Real(RAdd(tau(self, h)[1], RDiv(One, LoopGain(self)))))

damping_factor(self, h) ==
    Times(Scale(natural_frequency(self, h), <<1, 2>>),
          Real(RAdd(tau(self, h)[2], RDiv(One, LoopGain(self)))))

get_transfer_function(self, h) ==
    LET t == tau(self, h)
        kk == RMul(self.k_vco, self.k_pd)
        g == RMul(kk, RDiv(t[2], RAdd(t[1], t[2])))
    IN  [num |-> <<g, RDiv(g, t[2])>>,
         den |-> <<One,
                   RDiv(RAdd(One, RMul(RMul(RMul(self.k_n, self.k_pd),
                                             self.k_vco), t[2])),
                        RAdd(t[1], t[2])),
                   RDiv(RMul(RMul(self.k_n, self.k_pd), self.k_vco),
                        RAdd(t[1], t[2]))>>]

(***************************************************************************)
(* Output.  A printed value keeps the number print_value was given, as     *)
(* x * 10^e10; the rounding of the ".2f" format is not modelled.           *)
(***************************************************************************)
E(x, e10) == [x |-> x, e10 |-> e10]

\* print(text) and cprint(text, ...)
print(text) ==
    [kind |-> "text", name |-> text, value |-> E(Real(Zero), 0), unit |-> ""]

print_value(value, name, unit) ==
    [kind |-> "value", name |-> name, value |-> value, unit |-> unit]

InvalidModeMessage == print("Invalid execution mode")

(***************************************************************************)
(* vco.csv and get_kvco's numerics.                                        *)
(***************************************************************************)
\* the voltage column: increasing, evenly spaced or not
VoltageColumns(n) == {[i \in 1..n |-> i], [i \in 1..n |-> i * i]}

\* the data np.loadtxt returns: voltage [V] and frequency [kHz] per row
VcoFiles ==
    UNION {[voltage : VoltageColumns(n), kHz : [1..n -> 1..MaxFreqKHz]] :
           n \in 2..MaxRows}

\* np.argmax of a boolean array: the first True, the first entry when none is
argmax(b) ==
    IF \E i \in DOMAIN b : b[i]
    THEN CHOOSE i \in DOMAIN b : b[i] /\ \A j \in 1..(i - 1) : ~b[j]
    ELSE 1

\* np.gradient(f, x): second-order differences inside, first-order at the ends
gradient(f, x) ==
    LET n == Len(f)
        at(i) ==
            IF i = 1 THEN Rat(f[2] - f[1], x[2] - x[1])
            ELSE IF i = n THEN Rat(f[n] - f[n - 1], x[n] - x[n - 1])
            ELSE LET hs == x[i] - x[i - 1]
                     hd == x[i + 1] - x[i]
                 IN  Rat(hs * hs * f[i + 1] + (hd * hd - hs * hs) * f[i]
                             - hd * hd * f[i - 1],
                         hs * hd * (hd + hs))
    IN  [i \in 1..n |-> at(i)]

\* frequency = data[:, 1] * 1e3
frequency_Hz(data) == [i \in DOMAIN data.kHz |-> data.kHz[i] * 1000]

\* the index get_kvco takes the slope at
kvco_index(data, parameters) ==
    argmax([i \in DOMAIN data.kHz |->
               ~RLess(<<frequency_Hz(data)[i], 1>>, parameters.output_frequency)])

\* k_vco = 2 * pi * grad[index]
kvco_value(data, parameters) ==
    RMul(TwoPi,
         gradient(frequency_Hz(data), data.voltage)[kvco_index(data, parameters)])

(***************************************************************************)
(* The mode functions of loop.py.  d is the parameters dictionary.         *)
(***************************************************************************)
\* the lines both analyze and design end with
print_loop(self, h) ==
    <<print_value(E(Scale(natural_frequency(self, h), RDiv(One, TwoPi)), -3),
                  "Natural Frequency", "kHz"),
      print_value(E(damping_factor(self, h), 0), "Damping Factor", "-")>>

analyze_lines(self, h) ==
    LET t == tau(self, h)
        w_3db == RDiv(One, RAdd(t[1], t[2]))
        gain_pass == RDiv(t[2], RAdd(t[1], t[2]))
    IN  <<print("PLL Loop")>> \o print_loop(self, h)
        \o <<print("Loop Filter"),
             print_value(E(Real(RDiv(w_3db, TwoPi)), -3), "3 dB Bandwidth", "kHz"),
             print_value(E(Scale(Log(gain_pass), <<20, 1>>), 0),
                         "Passband Gain", "dB")>>

analyze(d) ==
    /\ heap' = HC4046_heap(heap)
    /\ pll' = <<HC4046(d)>>
    /\ out' = out \o analyze_lines(HC4046(d), HC4046_heap(heap))
    /\ pc' = "exit"
    /\ exit_code' = 0
    /\ UNCHANGED <<vco_csv, lsq, result, figure>>

get_kvco(d) ==
    \E data \in VcoFiles :
        /\ vco_csv' = <<data>>
        /\ out' = out \o <<print("Extracting k_vco"), print("Using data from: vco.csv"),
                           print_value(E(Real(kvco_value(data, d)), -3),
                                       "k_vco", "kHz/V")>>
        /\ pc' = "exit"
        /\ exit_code' = 0
        /\ UNCHANGED <<heap, pll, lsq, result, figure>>

step(d) ==
    /\ heap' = HC4046_heap(heap)
    /\ pll' = <<HC4046(d)>>
    /\ out' = Append(out, print("Plotting Step Response"))
    /\ figure' = <<get_transfer_function(HC4046(d), HC4046_heap(heap))>>
    /\ pc' = "exit"
    /\ exit_code' = 0
    /\ UNCHANGED <<vco_csv, lsq, result>>

(***************************************************************************)
(* design, and least_squares as its environment.                           *)
(***************************************************************************)
\* residuals writing x into the list pll.r names (pll.r[:] = x) instead of
\* rebinding pll.r
residuals_in_place(self, h, x, d) ==
    LET hh == [h EXCEPT ![self.r] = x]
    IN  [self |-> self,
         heap |-> hh,
         f |-> <<<<natural_frequency(self, hh),
                   Real(RMul(d.design_natural_frequency, TwoPi))>>,
                 <<damping_factor(self, hh), Real(d.design_damping_factor)>>>>]

\* residuals(x): rebinds pll.r to x[:], a view of the array x (the cell
\* "x_view"), and returns the two residuals as <<value, target>> pairs
residuals(self, h, x, d) ==
    LET o == [self EXCEPT !.r = "x_view"]
        hh == [h EXCEPT !["x_view"] = x]
    IN  [self |-> o,
         heap |-> hh,
         f |-> <<<<natural_frequency(o, hh),
                   Real(RMul(d.design_natural_frequency, TwoPi))>>,
                 <<damping_factor(o, hh), Real(d.design_damping_factor)>>>>]

LsqIdle == [x |-> <<>>, nfev |-> 0, jac_i |-> 0, status |-> -1, f |-> <<>>]

\* design up to the first residual evaluation of least_squares, at x0 = pll.r
design(d) ==
    LET ev == residuals(HC4046(d), HC4046_heap(heap),
                        HC4046_heap(heap)[HC4046(d).r], d)
    IN  /\ out' = out \o <<print("Designing PLL Loop"),
                           print("-> Fitting R1 and R2 values. C is taken from "),
                           print("parameters.json.")>>
        /\ pll' = <<ev.self>>
        /\ heap' = ev.heap
        /\ lsq' = [x |-> HC4046_heap(heap)[HC4046(d).r], nfev |-> 1, jac_i |-> 1,
                   status |-> -1, f |-> ev.f]
        /\ pc' = "lsq_jac"
        /\ UNCHANGED <<exit_code, vco_csv, result, figure>>

\* the point of the i-th forward difference: one grid step along coordinate i
Perturbed(x, i) == [x EXCEPT ![i] = RAdd(@, One)]

\* One residual evaluation of the finite-difference Jacobian at lsq.x.  The
\* array handed to residuals is the optimiser's: it may set the perturbed
\* coordinate back afterwards, which pll.r, a view of that array, then shows.
LsqJacobian ==
    /\ pc = "lsq_jac"
    /\ LET ev == residuals(pll[1], heap, Perturbed(lsq.x, lsq.jac_i),
                           json_parameters[1])
       IN  /\ pll' = <<ev.self>>
           /\ \E restored \in BOOLEAN :
                  heap' = IF restored THEN [ev.heap EXCEPT !["x_view"] = lsq.x]
                          ELSE ev.heap
           /\ lsq' = [lsq EXCEPT !.jac_i = IF @ < Len(lsq.x) THEN @ + 1 ELSE 0,
                                 !.f = ev.f]
    /\ pc' = IF lsq.jac_i < Len(lsq.x) THEN "lsq_jac" ELSE "lsq_top"
    /\ UNCHANGED <<script, mode, exit_code, parameters_json, json_parameters,
                   vco_csv, result, figure, calls, out>>

\* One trial step: residuals at y = x + step; the step is accepted (the cost
\* fell) or not; ftol (2) ends the iteration on an accepted step only, xtol
\* (3) on either.  An accepted point gets its Jacobian before the loop ends.
LsqTrial ==
    /\ pc = "lsq_top"
    /\ lsq.status = -1
    /\ lsq.nfev < MaxNfev
    /\ \E y \in RGrid \X RGrid, accepted \in BOOLEAN, st \in {-1, 2, 3} :
          /\ y # lsq.x
          /\ st = 2 => accepted
          /\ LET ev == residuals(pll[1], heap, y, json_parameters[1])
             IN  /\ pll' = <<ev.self>>
                 /\ heap' = ev.heap
                 /\ lsq' = [x |-> IF accepted THEN y ELSE lsq.x,
                            nfev |-> lsq.nfev + 1,
                            jac_i |-> IF accepted THEN 1 ELSE 0,
                            status |-> st,
                            f |-> ev.f]
          /\ pc' = IF accepted THEN "lsq_jac" ELSE "lsq_top"
    /\ UNCHANGED <<script, mode, exit_code, parameters_json, json_parameters,
                   vco_csv, result, figure, calls, out>>

\* the status least_squares ends with: the one a trial step set, else gtol (1)
\* at the top of the loop, else 0 when max_nfev is reached
FinalStatuses ==
    IF lsq.status # -1 THEN {lsq.status}
    ELSE IF lsq.nfev >= MaxNfev THEN {0, 1}
    ELSE {1}

\* design_report without the return of the failure branch
design_report_falls_through(self, h, success) ==
    (IF success
     THEN <<print_value(E(Real(h[self.r][1]), -3), "R1", "kOhm"),
            print_value(E(Real(h[self.r][2]), -3), "R2", "kOhm"),
            print_value(E(Real(h[self.c][1]), 12), "C", "pF")>>
     ELSE <<print("Optimization failed.")>>)
    \o print_loop(self, h)

\* what design prints once least_squares has returned
design_report(self, h, success) ==
    IF success
    THEN <<print_value(E(Real(h[self.r][1]), -3), "R1", "kOhm"),
           print_value(E(Real(h[self.r][2]), -3), "R2", "kOhm"),
           print_value(E(Real(h[self.c][1]), 12), "C", "pF")>>
         \o print_loop(self, h)
    ELSE <<print("Optimization failed.")>>

\* least_squares returns its current iterate; design prints and returns
DesignFinish ==
    /\ pc = "lsq_top"
    /\ \E st \in FinalStatuses :
          /\ result' = <<[x |-> lsq.x, success |-> st > 0, status |-> st]>>
          /\ out' = out \o design_report(pll[1], heap, st > 0)
    /\ pc' = "exit"
    /\ exit_code' = 0
    /\ UNCHANGED <<script, mode, parameters_json, json_parameters, vco_csv,
                   heap, pll, lsq, figure, calls>>

(***************************************************************************)
(* __main__                                                                *)
(***************************************************************************)
\* a mode argument without choices
parse_args_accepts_any(s, m) == m \in Argv

\* argparse's choices=MODES
parse_args_accepts(s, m) == m \in MODES(s)

\* parser.parse_args(): an invalid choice prints the usage error and exits 2
ParseArgs ==
    /\ pc = "start"
    /\ IF parse_args_accepts(script, mode)
       THEN /\ pc' = "parsed"
            /\ UNCHANGED <<exit_code, out>>
       ELSE /\ pc' = "exit"
            /\ exit_code' = 2
            /\ out' = Append(out, print("error: argument mode: invalid choice"))
    /\ UNCHANGED <<script, mode, parameters_json, json_parameters, vco_csv,
                   heap, pll, lsq, result, figure, calls>>

\* loop.py only: open parameters.json and json.load it
LoadParameters ==
    /\ script = "loop"
    /\ pc = "parsed"
    /\ \E file \in ParamFiles :
          /\ parameters_json' = <<file>>
          /\ json_parameters' = <<LoadDict(file)>>
          /\ heap' = LoadHeap(heap, file)
    /\ pc' = "loaded"
    /\ UNCHANGED <<script, mode, exit_code, vco_csv, pll, lsq, result, figure,
                   calls, out>>

\* where each script dispatches from
DispatchPoint(s) == IF s = "loop" THEN "loaded" ELSE "parsed"

\* what locals()[args.mode](...) raises for a name that is no mode function
LookupError(s, m) == IF m \in Locals(s) THEN "TypeError" ELSE "KeyError"

\* the except clause of the dispatch
except_NameError(exc) == exc = "NameError"

\* an exception leaving the call inside the try
Raise(exc) ==
    /\ IF except_NameError(exc)
       THEN /\ out' = Append(out, InvalidModeMessage)
            /\ exit_code' = 0
       ELSE /\ out' = Append(out, print("Traceback (most recent call last)"))
            /\ exit_code' = 1
    /\ pc' = "exit"
    /\ UNCHANGED <<heap, pll, lsq, result, figure, vco_csv, calls>>

\* the arguments the dispatch passes
DispatchArgs(s) == IF s = "loop" THEN json_parameters ELSE <<>>

\* locals()[args.mode](json_parameters), or locals()[args.mode]()
Dispatch ==
    /\ pc = DispatchPoint(script)
    /\ IF mode \notin ModeFunctions(script)
       THEN Raise(LookupError(script, mode))
       ELSE /\ calls' = Append(calls, [fn |-> mode, args |-> DispatchArgs(script)])
            /\ IF script = "loop_filter"
               THEN /\ pc' = "exit"
                    /\ exit_code' = 0
                    /\ UNCHANGED <<heap, pll, lsq, result, figure, vco_csv, out>>
               ELSE CASE mode = "analyze" -> analyze(json_parameters[1])
                      [] mode = "design" -> design(json_parameters[1])
                      [] mode = "get_kvco" -> get_kvco(json_parameters[1])
                      [] mode = "step" -> step(json_parameters[1])
    /\ UNCHANGED <<script, mode, parameters_json, json_parameters>>

Init ==
    /\ script \in Scripts
    /\ mode \in Argv
    /\ pc = "start"
    /\ exit_code = -1
    /\ parameters_json = <<>>
    /\ json_parameters = <<>>
    /\ vco_csv = <<>>
    /\ heap = EmptyHeap
    /\ pll = <<>>
    /\ lsq = LsqIdle
    /\ result = <<>>
    /\ figure = <<>>
    /\ calls = <<>>
    /\ out = <<>>

Next ==
    \/ ParseArgs
    \/ LoadParameters
    \/ Dispatch
    \/ LsqJacobian
    \/ LsqTrial
    \/ DesignFinish

Spec == Init /\ [][Next]_vars

(***************************************************************************)
(* Properties.                                                             *)
(***************************************************************************)
Range(f) == {f[i] : i \in DOMAIN f}

\* the three lines design prints before it builds the HC4046 object
DesignHeader ==
    <<print("Designing PLL Loop"),
      print("-> Fitting R1 and R2 values. C is taken from "),
      print("parameters.json.")>>

\* what design has printed after its header
ResultOutput == SubSeq(out, Len(DesignHeader) + 1, Len(out))

\* design has run to its end
DesignReturned == pc = "exit" /\ result # <<>>

\* C1: in design mode, when the optimisation reports success, the R1 and R2
\* printed, and the resistors behind the natural frequency and damping factor
\* printed after them, are those of the solution least_squares returned
\* (result.x), whatever points the optimiser evaluated last.
C1_PrintedResistorsAreSolution ==
    (DesignReturned /\ result[1].success) =>
        ResultOutput =
            design_report(pll[1], [heap EXCEPT ![pll[1].r] = result[1].x], TRUE)

\* C2: each script has loaded the parameter file when it dispatches, and the
\* mode function it calls is passed the loaded parameters.
C2_DispatchPassesLoadedParameters ==
    \A i \in DOMAIN calls :
        /\ parameters_json # <<>>
        /\ json_parameters # <<>>
        /\ calls[i].args = json_parameters

\* C3: a run whose requested mode names no mode function ends normally, having
\* printed "Invalid execution mode '<mode>'", and only such a run prints it.
C3_InvalidModeIsReported ==
    /\ (pc = "exit" /\ mode \notin ModeFunctions(script)) =>
           (InvalidModeMessage \in Range(out) /\ exit_code = 0)
    /\ InvalidModeMessage \in Range(out) => mode \notin ModeFunctions(script)

\* the rows of vco.csv whose frequency is closest to the Output Frequency
ClosestRows(data, parameters) ==
    LET dist(i) == RAbs(RSub(<<frequency_Hz(data)[i], 1>>,
                             parameters.output_frequency))
    IN  {i \in DOMAIN data.kHz :
            \A j \in DOMAIN data.kHz : ~RLess(dist(j), dist(i))}

\* C4: the k_vco that get_kvco prints is 2*pi times the slope at a measured
\* sample whose frequency is closest to the configured Output Frequency.
C4_SlopeAtClosestSample ==
    (pc = "exit" /\ vco_csv # <<>>) =>
        \E i \in ClosestRows(vco_csv[1], json_parameters[1]) :
            out[Len(out)] =
                print_value(
                    E(Real(RMul(TwoPi, gradient(frequency_Hz(vco_csv[1]),
                                                vco_csv[1].voltage)[i])), -3),
                    "k_vco", "kHz/V")

\* C5: the parameters dictionary, with the lists under Loop Filter, holds what
\* was loaded from parameters.json at every point of every mode, so also after
\* the mode has returned.
C5_ParametersUnchanged ==
    json_parameters # <<>> =>
        DictValue(json_parameters[1], heap) = parameters_json[1]

C5_Witness ==
    /\ DesignReturned
    /\ pll[1].r # json_parameters[1].R
    /\ heap[pll[1].r] # parameters_json[1].R

\* C6: the denominator of get_transfer_function is [1, 2*zeta*wn, wn^2] with
\* wn = natural_frequency and zeta = damping_factor, for every HC4046 object
\* the modes build and every resistor pair design sets on it.
C6_DenominatorMatchesProperties ==
    /\ pll # <<>> =>
          LET wn == natural_frequency(pll[1], heap)
              zeta == damping_factor(pll[1], heap)
              den == get_transfer_function(pll[1], heap).den
          IN  /\ den[1] = One
              /\ Real(den[2]) = Times(Real(Two), Times(zeta, wn))
              /\ Real(den[3]) = Times(wn, wn)
    /\ figure # <<>> => figure[1] = get_transfer_function(pll[1], heap)

C6_Witness ==
    /\ figure # <<>>
    /\ heap[pll[1].r][1] # heap[pll[1].r][2]
    /\ figure[1].den[2] # figure[1].den[3]

\* the phase-detector gain specified for a configured Phase Detector,
\* prior being the object's k_pd before set_parameters
ExpectedKpd(prior, file) ==
    CASE file.phase_detector = "I" -> RDiv(file.supply_voltage, pi)
      [] file.phase_detector \in {"II", "III"} ->
            RDiv(file.supply_voltage, RMul(Two, pi))
      [] OTHER -> prior

\* C7: set_parameters sets k_pd to Supply Voltage / pi for "I" and to Supply
\* Voltage / (2*pi) for "II" and "III", leaves it as it was otherwise (1.0 on
\* a fresh object) without raising, and takes k_vco, k_n, r and c from the
\* parameters in every case.
C7_SetParameters ==
    pll # <<>> =>
        LET file == parameters_json[1]
            d == json_parameters[1]
        IN  /\ pll[1].k_pd = ExpectedKpd(One, file)
            /\ \A prior \in {One, Two, <<1, 2>>} :
                   set_parameters([pll[1] EXCEPT !.k_pd = prior], d).k_pd
                       = ExpectedKpd(prior, file)
            /\ pll[1].k_vco = file.k_vco
            /\ pll[1].k_n = RDiv(file.input_frequency, file.output_frequency)
            /\ pll[1].c = d.C
            /\ heap[pll[1].c] = file.C
            /\ mode # "design" => pll[1].r = d.R /\ heap[pll[1].r] = file.R
            /\ pc = "exit" => exit_code = 0

C7_Witness ==
    /\ pc = "exit"
    /\ mode = "analyze"
    /\ pll # <<>>
    /\ parameters_json[1].phase_detector = "IV"
    /\ pll[1].k_pd = One
    /\ pll[1].k_vco = Two

\* C8: design prints, after its header, only "Optimization failed." when the
\* optimisation did not succeed, and R1, R2, C, Natural Frequency, Damping
\* Factor, in that order and once each, when it did; nothing before then.
C8_DesignOutput ==
    /\ pc \in {"lsq_jac", "lsq_top"} => out = DesignHeader
    /\ DesignReturned =>
          /\ SubSeq(out, 1, Len(DesignHeader)) = DesignHeader
          /\ IF result[1].success
             THEN /\ [i \in DOMAIN ResultOutput |-> ResultOutput[i].name]
                         = <<"R1", "R2", "C", "Natural Frequency", "Damping Factor">>
                  /\ \A i \in DOMAIN ResultOutput : ResultOutput[i].kind = "value"
             ELSE ResultOutput = <<print("Optimization failed.")>>

C8_Witness ==
    /\ DesignReturned
    /\ ~result[1].success
    /\ result[1].status = 0
    /\ Len(out) = Len(DesignHeader) + 1

\* C9: a run of loop.py calls at most one mode function, at most once; a mode
\* outside MODES is refused before parameters.json is opened and before any
\* mode function runs; every mode in MODES names a mode function, and that
\* function is the one called, once, with the loaded parameters.
C9_OneModeCall ==
    script = "loop" =>
        /\ Len(calls) <= 1
        /\ MODES(script) \subseteq ModeFunctions(script)
        /\ mode \notin MODES(script) =>
              /\ calls = <<>>
              /\ parameters_json = <<>>
              /\ pc \in {"start", "exit"}
              /\ pc = "exit" => exit_code = 2
        /\ (mode \in MODES(script) /\ pc \notin {"start", "parsed", "loaded"}) =>
              /\ json_parameters # <<>>
              /\ calls = <<[fn |-> mode, args |-> json_parameters]>>
              /\ pc = "exit" => exit_code = 0

C9_Witness ==
    /\ script = "loop"
    /\ pc = "exit"
    /\ mode = "step"
    /\ calls = <<[fn |-> "step", args |-> json_parameters]>>
    /\ figure # <<>>

\* a successful design run that printed resistors other than the solution's
C1_Witness ==
    /\ DesignReturned
    /\ result[1].success
    /\ heap[pll[1].r] # result[1].x

\* loop_filter.py has called a mode function without any parameters
C2_Witness ==
    /\ script = "loop_filter"
    /\ pc = "exit"
    /\ calls = <<[fn |-> mode, args |-> <<>>]>>
    /\ parameters_json = <<>>

\* a mode that names no mode function was refused by the argument parser
C3_Witness ==
    /\ pc = "exit"
    /\ mode \notin ModeFunctions(script)
    /\ exit_code = 2
    /\ InvalidModeMessage \notin Range(out)

\* every measured frequency lies below the Output Frequency
C4_Witness ==
    /\ pc = "exit"
    /\ vco_csv # <<>>
    /\ \A i \in DOMAIN vco_csv[1].kHz :
           RLess(<<frequency_Hz(vco_csv[1])[i], 1>>,
                 json_parameters[1].output_frequency)
    /\ kvco_index(vco_csv[1], json_parameters[1]) = 1
    /\ 1 \notin ClosestRows(vco_csv[1], json_parameters[1])
====
